---- MODULE Spec2Model ----
(***************************************************************************)
(* The /dashboard endpoint of app/app.py: a Flask application object, one  *)
(* route, and the view function dashboard(), which reads the query         *)
(* parameter "widget" (with a literal default) and renders dashboard.html  *)
(* with it.  Text is modelled as a sequence of one-character strings, so   *)
(* that substitution, escaping and substring occurrence are computed.      *)
(***************************************************************************)
EXTENDS Naturals, Sequences, FiniteSets

\* ------------------------------------------------------------- bounds
\* Longest widget value drawn as an input.
MaxLen == 1
\* Largest number of key/value pairs in a query string.
MaxArgs == 2
\* Number of requests the server handles at once (threads of the dev server).
MaxConc == 2

\* ------------------------------------------------------------- inputs
\* Characters a widget value is drawn from: plain text and the markup
\* characters HTML escaping would rewrite.
Chars == {"b", "<", ">", "&", "\""}

Values == UNION {[1..n -> Chars] : n \in 0..MaxLen}

\* Decoded key/value pairs of a query string, as request.args holds them, in
\* query order.  "theme" stands for any parameter other than widget.
Pairs == {<<"widget", v>> : v \in Values} \cup {<<"theme", <<"b">>>>}

Queries == UNION {[1..n -> Pairs] : n \in 0..MaxArgs}

Requests ==
    {[method |-> "GET", path |-> "/dashboard", args |-> q] : q \in Queries}
    \cup {[method |-> "POST", path |-> "/dashboard", args |-> <<>>],
          [method |-> "GET", path |-> "/other", args |-> <<>>]}

\* The requests of the concurrent specification: one of each shape.
ConcRequests ==
    {[method |-> "GET", path |-> "/dashboard", args |-> q] :
        q \in {<<>>,
               <<<<"widget", <<>>>>>>,
               <<<<"widget", <<"b">>>>>>,
               <<<<"widget", <<"<", "b">>>>>>,
               <<<<"theme", <<"b">>>>, <<"widget", <<"&">>>>, <<"widget", <<"b">>>>>>}}
    \cup {[method |-> "POST", path |-> "/dashboard", args |-> <<>>]}

Slots == 1..MaxConc

\* ------------------------------------------------------------- program text
\* '<div>Welcome to your dashboard!</div>'
DefaultWidget ==
    <<"<", "d", "i", "v", ">",
      "W", "e", "l", "c", "o", "m", "e", " ", "t", "o", " ",
      "y", "o", "u", "r", " ",
      "d", "a", "s", "h", "b", "o", "a", "r", "d", "!",
      "<", "/", "d", "i", "v", ">">>

\* app = Flask(__name__) and @app.route('/dashboard'): the application object
\* with its route table.  A route without a methods argument accepts GET.
StartupApp(dbg) ==
    [import_name |-> "app",
     debug |-> dbg,
     url_map |-> {[rule |-> "/dashboard", endpoint |-> "dashboard",
                   methods |-> {"GET"}]}]

\* dashboard.html, which is not among the sources: static text around one
\* placeholder for widget_code, marked safe (no escaping).
TemplatePrefix == <<"<", "b", ">">>
TemplateSuffix == <<"<", "/", "b", ">">>
TemplateSafe == TRUE

\* ------------------------------------------------------------- helpers
RECURSIVE Flatten(_)
Flatten(ss) == IF ss = <<>> THEN <<>> ELSE Head(ss) \o Flatten(Tail(ss))

\* HTML escaping of one character, as the template engine does it.
EscapeChar(c) ==
    CASE c = "&" -> <<"&", "a", "m", "p", ";">>
      [] c = "<" -> <<"&", "l", "t", ";">>
      [] c = ">" -> <<"&", "g", "t", ";">>
      [] c = "\"" -> <<"&", "#", "3", "4", ";">>
      [] c = "'" -> <<"&", "#", "3", "9", ";">>
      [] OTHER -> <<c>>

Escape(s) == Flatten([i \in 1..Len(s) |-> EscapeChar(s[i])])

\* Indexes of the pairs of args whose key is key.
KeyIndexes(args, key) == {i \in 1..Len(args) : args[i][1] = key}

HasKey(args, key) == KeyIndexes(args, key) # {}

Min(S) == CHOOSE x \in S : \A y \in S : x <= y
Max(S) == CHOOSE x \in S : \A y \in S : x >= y

\* request.args.get(key, default) with the key's last value (a mutant).
ArgsGetLast(args, key, default) ==
    IF HasKey(args, key) THEN args[Max(KeyIndexes(args, key))][2] ELSE default

\* request.args.get(key) or default: an empty value counts as absent (a mutant).
ArgsGetOr(args, key, default) ==
    IF HasKey(args, key) /\ args[Min(KeyIndexes(args, key))][2] # <<>>
    THEN args[Min(KeyIndexes(args, key))][2]
    ELSE default

\* request.args.get(key, default): the first value of key in query order, and
\* default only when no pair has that key.
ArgsGet(args, key, default) ==
    IF HasKey(args, key) THEN args[Min(KeyIndexes(args, key))][2] ELSE default

\* s without its angle brackets.
RECURSIVE Strip(_)
Strip(s) ==
    IF s = <<>> THEN <<>>
    ELSE IF Head(s) \in {"<", ">"} THEN Strip(Tail(s))
    ELSE <<Head(s)>> \o Strip(Tail(s))

\* The view removing angle brackets from a supplied value (a mutant).
WidgetCodeStripped(args) ==
    IF HasKey(args, "widget") THEN Strip(ArgsGet(args, "widget", DefaultWidget))
    ELSE DefaultWidget

\* The view's first statement with another default (a mutant).
WidgetCodeEmptyDefault(args) == ArgsGet(args, "widget", <<>>)

\* widget_code = request.args.get('widget', '<div>Welcome to your dashboard!</div>')
WidgetCode(args) == ArgsGet(args, "widget", DefaultWidget)

\* The rendered template: the static text with the value at the placeholder,
\* escaped unless the placeholder is marked safe.
TemplateBody(widget_code) ==
    TemplatePrefix
    \o (IF TemplateSafe THEN widget_code ELSE Escape(widget_code))
    \o TemplateSuffix

\* The view passing an escaped value to the template (a mutant).
RenderTemplateEscaped(widget_code) == TemplateBody(Escape(widget_code))

\* render_template('dashboard.html', widget_code=widget_code), the template
\* being present and well-formed.
RenderTemplate(widget_code) == TemplateBody(widget_code)

\* ------------------------------------------------------------- state
VARIABLES
    app,    \* the application object and its route table
    templ,  \* dashboard.html on disk: "ok", "missing" or "malformed"
    ctx     \* per slot: the request context and the view's progress in it

vars == <<app, templ, ctx>>

NoRequest == [method |-> "", path |-> "", args |-> <<>>]
NoResponse == [status |-> 0, mimetype |-> "", body |-> <<>>]

IdleCtx ==
    [stage |-> "idle", req |-> NoRequest, widget_code |-> <<>>,
     rv |-> <<>>, exc |-> "", resp |-> NoResponse]

\* The framework's own pages.
NotFoundPage == <<"4", "0", "4">>
MethodNotAllowedPage == <<"4", "0", "5">>
BadRequestPage == <<"4", "0", "0">>
ServerErrorPage(dbg) ==
    IF dbg THEN <<"5", "0", "0", " ", "t", "r", "a", "c", "e">>
    ELSE <<"5", "0", "0">>

\* A view's str return value becomes a 200 text/html response.
MakeResponse(rv) == [status |-> 200, mimetype |-> "text/html", body |-> rv]

ErrorResponse(code, page) ==
    [status |-> code, mimetype |-> "text/html", body |-> page]

\* The rules of the route table that match a path.
Matching(path) == {u \in app.url_map : u.rule = path}

\* The module has run: app is constructed and the route registered.  debug is
\* set when the module is run as a script (app.run(debug=True)) and not when
\* it is imported by a server.  The template file is as deployed.
Init ==
    /\ \E dbg \in BOOLEAN : app = StartupApp(dbg)
    /\ templ \in {"ok", "missing", "malformed"}
    /\ ctx = [i \in Slots |-> IdleCtx]

\* A request of R arrives on a free slot: the framework pushes a fresh request
\* context and matches the URL; only a matching GET reaches the view.
Dispatch(i, R) ==
    /\ ctx[i].stage = "idle"
    /\ \E r \in R :
          ctx' = [ctx EXCEPT ![i] =
             IF Matching(r.path) = {}
             THEN [IdleCtx EXCEPT !.stage = "done", !.req = r,
                                  !.resp = ErrorResponse(404, NotFoundPage)]
             ELSE IF \A u \in Matching(r.path) : r.method \notin u.methods
             THEN [IdleCtx EXCEPT !.stage = "done", !.req = r,
                                  !.resp = ErrorResponse(405, MethodNotAllowedPage)]
             ELSE [IdleCtx EXCEPT !.stage = "handler", !.req = r]]
    /\ UNCHANGED <<app, templ>>

\* The view reading the arguments of whichever request is in flight, as a
\* module-level request object would give them (a mutant).
ReadArgsShared(i) ==
    /\ ctx[i].stage = "handler"
    /\ \E j \in Slots :
          /\ ctx[j].stage \in {"handler", "render"}
          /\ ctx' = [ctx EXCEPT ![i].stage = "render",
                                ![i].widget_code = WidgetCode(ctx[j].req.args)]
    /\ UNCHANGED <<app, templ>>

\* The view refusing a value that holds markup (a mutant).
ReadArgsRejecting(i) ==
    /\ ctx[i].stage = "handler"
    /\ LET w == WidgetCode(ctx[i].req.args) IN
       ctx' = [ctx EXCEPT ![i] =
          IF \E k \in 1..Len(w) : w[k] \in {"<", ">"}
          THEN [@ EXCEPT !.stage = "done",
                         !.resp = ErrorResponse(400, BadRequestPage)]
          ELSE [@ EXCEPT !.stage = "render", !.widget_code = w]]
    /\ UNCHANGED <<app, templ>>

\* Lines 9-10: widget_code is read from the args of the slot's own request
\* (request is context-local); get() raises for no value.
ReadArgs(i) ==
    /\ ctx[i].stage = "handler"
    /\ ctx' = [ctx EXCEPT ![i].stage = "render",
                          ![i].widget_code = WidgetCode(ctx[i].req.args)]
    /\ UNCHANGED <<app, templ>>

\* The view catching a rendering failure and returning a fallback (a mutant).
RenderCatching(i) ==
    /\ ctx[i].stage = "render"
    /\ ctx' = [ctx EXCEPT ![i].stage = "returned",
                          ![i].rv = IF templ = "ok"
                                    THEN RenderTemplate(ctx[i].widget_code)
                                    ELSE ctx[i].widget_code]
    /\ UNCHANGED <<app, templ>>

\* The view returning a page kept from an earlier request (a mutant).
RenderCached(i) ==
    /\ ctx[i].stage = "render"
    /\ \/ \E j \in Slots :
            /\ ctx[j].stage = "done"
            /\ ctx[j].resp.status = 200
            /\ ctx' = [ctx EXCEPT ![i].stage = "returned",
                                  ![i].rv = ctx[j].resp.body]
       \/ /\ \A j \in Slots : ~(ctx[j].stage = "done" /\ ctx[j].resp.status = 200)
          /\ ctx' = [ctx EXCEPT ![i] =
                IF templ = "ok"
                THEN [@ EXCEPT !.stage = "returned",
                               !.rv = RenderTemplate(ctx[i].widget_code)]
                ELSE [@ EXCEPT !.stage = "raised", !.exc = "TemplateNotFound"]]
    /\ UNCHANGED <<app, templ>>

\* The view registering something on the application while rendering (a mutant).
RenderRegistering(i) ==
    /\ ctx[i].stage = "render"
    /\ ctx' = [ctx EXCEPT ![i] =
          IF templ = "ok"
          THEN [@ EXCEPT !.stage = "returned",
                         !.rv = RenderTemplate(ctx[i].widget_code)]
          ELSE [@ EXCEPT !.stage = "raised", !.exc = "TemplateNotFound"]]
    /\ app' = [app EXCEPT !.url_map = @ \cup
                  {[rule |-> "/widget", endpoint |-> "widget",
                    methods |-> {"GET"}]}]
    /\ UNCHANGED templ

\* Line 11: render_template returns the page, or raises when the template is
\* missing or malformed; the view has no except clause, so the exception
\* leaves it.
Render(i) ==
    /\ ctx[i].stage = "render"
    /\ ctx' = [ctx EXCEPT ![i] =
          IF templ = "ok"
          THEN [@ EXCEPT !.stage = "returned",
                         !.rv = RenderTemplate(ctx[i].widget_code)]
          ELSE [@ EXCEPT !.stage = "raised",
                         !.exc = IF templ = "missing"
                                 THEN "TemplateNotFound"
                                 ELSE "TemplateSyntaxError"]]
    /\ UNCHANGED <<app, templ>>

\* The framework turns the view's outcome into the response: a returned str
\* into 200 text/html, an escaped exception into its 500 page.
Respond(i) ==
    /\ ctx[i].stage \in {"returned", "raised"}
    /\ ctx' = [ctx EXCEPT ![i].stage = "done",
                          ![i].resp =
                              IF ctx[i].stage = "returned"
                              THEN MakeResponse(ctx[i].rv)
                              ELSE ErrorResponse(500, ServerErrorPage(app.debug))]
    /\ UNCHANGED <<app, templ>>

\* The response is sent and the request context popped: the slot is free.
Release(i) ==
    /\ ctx[i].stage = "done"
    /\ ctx' = [ctx EXCEPT ![i] = IdleCtx]
    /\ UNCHANGED <<app, templ>>

\* One request at a time, any request.
Next ==
    \/ Dispatch(1, Requests)
    \/ ReadArgs(1)
    \/ Render(1)
    \/ Respond(1)
    \/ Release(1)

Spec == Init /\ [][Next]_vars

\* Requests handled concurrently, their steps interleaved.
NextConc ==
    \E i \in Slots :
        \/ Dispatch(i, ConcRequests)
        \/ ReadArgs(i)
        \/ Render(i)
        \/ Respond(i)
        \/ Release(i)

SpecConc == Init /\ [][NextConc]_vars

\* ------------------------------------------------------------- properties
\* Slot i holds a finished GET /dashboard exchange.
Served(i) ==
    /\ ctx[i].stage = "done"
    /\ ctx[i].req.method = "GET"
    /\ ctx[i].req.path = "/dashboard"

\* The values the query gives for widget, in query order.
WidgetIndexes(i) == KeyIndexes(ctx[i].req.args, "widget")
FirstWidget(i) == ctx[i].req.args[Min(WidgetIndexes(i))][2]

\* Number of places at which s occurs in body as a contiguous substring (the
\* empty string occurs at every position, as str.count has it).
Occurrences(s, body) ==
    Cardinality({k \in 1..(Len(body) + 1) :
        /\ k + Len(s) <= Len(body) + 1
        /\ \A n \in 1..Len(s) : body[k + n - 1] = s[n]})

\* s occurs in body starting right after the template's prefix.
AtPlaceholder(s, body) ==
    /\ Len(body) >= Len(TemplatePrefix) + Len(s)
    /\ \A n \in 1..Len(s) : body[Len(TemplatePrefix) + n] = s[n]

StaticChars ==
    {TemplatePrefix[k] : k \in 1..Len(TemplatePrefix)}
    \cup {TemplateSuffix[k] : k \in 1..Len(TemplateSuffix)}

\* C1 as stated: with the template in place, a request carrying widget=s
\* (once) gets a 200 whose body holds s at the placeholder and exactly once,
\* whatever s is.
C1_ExactlyOnce ==
    \A i \in Slots :
        (Served(i) /\ templ = "ok" /\ Cardinality(WidgetIndexes(i)) = 1)
        => /\ ctx[i].resp.status = 200
           /\ AtPlaceholder(FirstWidget(i), ctx[i].resp.body)
           /\ Occurrences(FirstWidget(i), ctx[i].resp.body) = 1

\* C1 amended: with the template in place, a request carrying widget=s (once)
\* gets a 200 whose body is the static text with s, unescaped, at the
\* placeholder; s occurs exactly once when it is non-empty and shares no
\* character with the static text.
C1_AtPlaceholder ==
    \A i \in Slots :
        (Served(i) /\ templ = "ok" /\ Cardinality(WidgetIndexes(i)) = 1)
        => LET s == FirstWidget(i)
               body == ctx[i].resp.body
           IN /\ ctx[i].resp.status = 200
              /\ body = TemplatePrefix \o s \o TemplateSuffix
              /\ AtPlaceholder(s, body)
              /\ Occurrences(s, body) >= 1
              /\ (s # <<>> /\ \A n \in 1..Len(s) : s[n] \notin StaticChars)
                    => Occurrences(s, body) = 1

\* A served request whose value is at the placeholder and occurs once.
C1_Witness ==
    /\ templ = "ok"
    /\ Served(1)
    /\ Cardinality(WidgetIndexes(1)) = 1
    /\ FirstWidget(1) = <<"&">>
    /\ Occurrences(FirstWidget(1), ctx[1].resp.body) = 1

\* C2: with the template in place, a request with no widget parameter gets a
\* 200 and the value at the placeholder is the literal default.
C2_DefaultWhenAbsent ==
    \A i \in Slots :
        (Served(i) /\ templ = "ok" /\ WidgetIndexes(i) = {})
        => /\ ctx[i].resp.status = 200
           /\ ctx[i].widget_code = DefaultWidget
           /\ ctx[i].resp.body = TemplatePrefix \o DefaultWidget \o TemplateSuffix

C2_Witness ==
    /\ templ = "ok"
    /\ Served(1)
    /\ ctx[1].req.args = <<<<"theme", <<"b">>>>>>
    /\ ctx[1].resp.status = 200

\* C3: the default is at the placeholder if and only if the query has no
\* widget parameter; a widget parameter with an empty value puts the empty
\* string there.
C3_EmptyIsNotAbsent ==
    \A i \in Slots :
        (Served(i) /\ templ = "ok")
        => /\ (ctx[i].widget_code = DefaultWidget) <=> (WidgetIndexes(i) = {})
           /\ (ctx[i].resp.body = TemplatePrefix \o DefaultWidget \o TemplateSuffix)
                 <=> (WidgetIndexes(i) = {})
           /\ (WidgetIndexes(i) # {} /\ FirstWidget(i) = <<>>)
                 => /\ ctx[i].widget_code = <<>>
                    /\ ctx[i].resp.body = TemplatePrefix \o TemplateSuffix

C3_Witness ==
    /\ templ = "ok"
    /\ Served(1)
    /\ ctx[1].req.args = <<<<"widget", <<>>>>>>
    /\ ctx[1].resp.status = 200

\* C4: a supplied value reaches the response unencoded: the view holds it
\* unchanged, the rendered page and the response body hold it, markup
\* characters included, at the placeholder.
C4_NotEncoded ==
    \A i \in Slots :
        (ctx[i].req.method = "GET" /\ ctx[i].req.path = "/dashboard"
            /\ WidgetIndexes(i) # {})
        => /\ ctx[i].stage \in {"render", "returned", "raised", "done"}
                => ctx[i].widget_code = FirstWidget(i)
           /\ ctx[i].stage = "returned"
                => /\ AtPlaceholder(FirstWidget(i), ctx[i].rv)
                   /\ Len(ctx[i].rv) = Len(TemplatePrefix) + Len(FirstWidget(i))
                                        + Len(TemplateSuffix)
           /\ (ctx[i].stage = "done" /\ templ = "ok")
                => /\ AtPlaceholder(FirstWidget(i), ctx[i].resp.body)
                   /\ Len(ctx[i].resp.body) = Len(TemplatePrefix)
                         + Len(FirstWidget(i)) + Len(TemplateSuffix)

C4_Witness ==
    /\ templ = "ok"
    /\ Served(1)
    /\ WidgetIndexes(1) # {}
    /\ FirstWidget(1) = <<"<">>
    /\ ctx[1].resp.body = <<"<", "b", ">", "<", "<", "/", "b", ">">>

\* The page the template gives for the request in slot i.
OwnPage(i) == TemplatePrefix \o WidgetCode(ctx[i].req.args) \o TemplateSuffix

\* C5: with the template in place, two finished GET /dashboard exchanges with
\* the same query have the same response, whatever was handled before or
\* between them.
C5_SameRequestSameBody ==
    \A i, j \in Slots :
        (Served(i) /\ Served(j) /\ templ = "ok"
            /\ ctx[i].req = ctx[j].req)
        => /\ ctx[i].resp = ctx[j].resp
           /\ ctx[i].resp.body = OwnPage(i)

C5_Witness ==
    /\ templ = "ok"
    /\ Served(1) /\ Served(2)
    /\ ctx[1].req = ctx[2].req
    /\ ctx[1].req.args = <<<<"widget", <<"<", "b">>>>>>
    /\ ctx[1].resp.status = 200

\* C6: whatever the interleaving, a request in flight carries the widget
\* value of its own query, and its page and response embed that value.
C6_OwnValue ==
    \A i \in Slots :
        /\ ctx[i].stage \in {"render", "returned", "raised"}
              => ctx[i].widget_code = WidgetCode(ctx[i].req.args)
        /\ ctx[i].stage = "returned" => ctx[i].rv = OwnPage(i)
        /\ (Served(i) /\ ctx[i].resp.status = 200)
              => ctx[i].resp.body = OwnPage(i)

\* Two requests with different values under way at once, each with its page.
C6_Witness ==
    /\ ctx[1].stage = "returned"
    /\ ctx[2].stage = "returned"
    /\ ctx[1].widget_code = <<"b">>
    /\ ctx[2].widget_code = <<"<", "b">>
    /\ ctx[1].rv # ctx[2].rv

\* C7: a GET /dashboard request is never refused for its widget value: the
\* view raises nothing before rendering, an exception comes only from a
\* failed rendering, and with the template in place the response is 200 with
\* type text/html.
C7_NeverRejected ==
    \A i \in Slots :
        (ctx[i].req.method = "GET" /\ ctx[i].req.path = "/dashboard")
        => /\ ctx[i].stage \in {"handler", "render", "returned", "raised", "done"}
           /\ ctx[i].stage \in {"handler", "render", "returned"} => ctx[i].exc = ""
           /\ ctx[i].stage = "raised" => templ # "ok"
           /\ ctx[i].stage = "done" => ctx[i].resp.status \in {200, 500}
           /\ (ctx[i].stage = "done" /\ templ = "ok")
                 => /\ ctx[i].resp.status = 200
                    /\ ctx[i].resp.mimetype = "text/html"
                    /\ ctx[i].exc = ""

C7_Witness ==
    /\ templ = "ok"
    /\ Served(1)
    /\ ctx[1].req.args = <<<<"widget", <<">">>>>, <<"widget", <<"&">>>>>>
    /\ ctx[1].resp.status = 200
    /\ ctx[1].resp.mimetype = "text/html"

\* C8: when rendering fails the view returns nothing: the exception leaves
\* it and the response is the framework's 500 page, never a 200.
C8_FailurePropagates ==
    \A i \in Slots :
        (ctx[i].req.method = "GET" /\ ctx[i].req.path = "/dashboard"
            /\ templ # "ok")
        => /\ ctx[i].stage # "returned"
           /\ ctx[i].rv = <<>>
           /\ ctx[i].stage \in {"raised", "done"}
                 => ctx[i].exc = (IF templ = "missing" THEN "TemplateNotFound"
                                  ELSE "TemplateSyntaxError")
           /\ ctx[i].stage = "done"
                 => /\ ctx[i].resp.status = 500
                    /\ ctx[i].resp.body = ServerErrorPage(app.debug)

C8_Witness ==
    /\ templ = "malformed"
    /\ Served(1)
    /\ ctx[1].req.args = <<<<"widget", <<"b">>>>>>
    /\ ctx[1].resp.status = 500
    /\ ctx[1].exc = "TemplateSyntaxError"

\* C9: the application object and its route table are as startup left them,
\* after any request, and so is the template on disk.
C9_AppUnchanged == [][app' = app /\ templ' = templ]_vars

\* A failed request and a successful one have both finished.
C9_Witness ==
    /\ Served(1) /\ ctx[1].resp.status = 200
    /\ ctx[2].stage = "done" /\ ctx[2].resp.status = 405
    /\ app = StartupApp(app.debug)

\* C10 as stated: with widget given more than once, the first value is at the
\* placeholder, the default is not used, and no later value occurs anywhere
\* in the response (read for the later values that are non-empty).
C10_LaterNeverAppear ==
    \A i \in Slots :
        (Served(i) /\ templ = "ok" /\ Cardinality(WidgetIndexes(i)) > 1)
        => /\ ctx[i].resp.body = TemplatePrefix \o FirstWidget(i) \o TemplateSuffix
           /\ ctx[i].widget_code # DefaultWidget
           /\ \A k \in WidgetIndexes(i) \ {Min(WidgetIndexes(i))} :
                 ctx[i].req.args[k][2] # <<>>
                 => Occurrences(ctx[i].req.args[k][2], ctx[i].resp.body) = 0

\* C10 amended: with widget given more than once, exactly the first value in
\* query order is substituted: the body is the static text around that value
\* alone, no later value is the one substituted unless it equals the first,
\* and the default is not used.
C10_FirstValueWins ==
    \A i \in Slots :
        (Served(i) /\ templ = "ok" /\ Cardinality(WidgetIndexes(i)) > 1)
        => /\ ctx[i].resp.status = 200
           /\ ctx[i].widget_code = FirstWidget(i)
           /\ ctx[i].resp.body = TemplatePrefix \o FirstWidget(i) \o TemplateSuffix
           /\ ctx[i].widget_code # DefaultWidget
           /\ \A k \in WidgetIndexes(i) :
                 ctx[i].req.args[k][2] # FirstWidget(i)
                 => ctx[i].resp.body
                       # TemplatePrefix \o ctx[i].req.args[k][2] \o TemplateSuffix

C10_Witness ==
    /\ templ = "ok"
    /\ Served(1)
    /\ ctx[1].req.args = <<<<"widget", <<"&">>>>, <<"widget", <<"\"">>>>>>
    /\ ctx[1].resp.body = TemplatePrefix \o <<"&">> \o TemplateSuffix

====
